---- MODULE Spec2Model ----
(***************************************************************************)
(* Block Account API (src/main.go, lines 1-570): a chi HTTP service over   *)
(* one PostgreSQL table, block_accounts.  The model keeps the table, its   *)
(* id sequence, a clock, and a fixed number of request slots, each         *)
(* running one handler at a time.  A handler is split at its store round   *)
(* trips, so that statements of concurrent requests interleave as the      *)
(* connection pool lets them.  A store call either fails (connection,      *)
(* query or timeout error, nothing executed) or executes atomically.       *)
(*                                                                         *)
(* Units.  Go times are integers of clock ticks; Microsecond and Hour are  *)
(* scaled down so that the durations fit TLC's integers (Hour stays a      *)
(* multiple of Microsecond, as in Go).  Principals are thousandths, so      *)
(* that DECIMAL(15,2) has something to round; interest rates are 1e-5.     *)
(***************************************************************************)
EXTENDS Integers, Sequences, FiniteSets, TLC

VARIABLES
    table,      \* rows of block_accounts
    seq,        \* last value of block_accounts_id_seq (SERIAL)
    clock,      \* wall clock at its last reading, in ticks
    pc,         \* per slot: position of its handler
    req,        \* per slot: the request and the handler's locals
    ret,        \* per slot: what the service call returned
    resp,       \* per slot: the HTTP response written
    started,    \* number of requests started
    effect,     \* history: rows the slot's current request inserted / deleted
    origin,     \* history: id -> arguments of the INSERT that got it
    returned,   \* history: id -> account CreateBlockAccount returned
    deleted,    \* history: ids a DELETE removed
    assigned    \* history: ids handed out by the sequence, in order

vars == <<table, seq, clock, pc, req, ret, resp, started, effect, origin,
          returned, deleted, assigned>>

(***************************************************************************)
(* Bounds                                                                  *)
(***************************************************************************)
NumWorkers == 2
MaxRequests == 3
MaxClock == 2
MaxParam == 2

Workers == 1..NumWorkers

(***************************************************************************)
(* Units and column types                                                  *)
(***************************************************************************)
Microsecond == 2
Hour == 4
Cent == 10
RateUnit == 10

\* PostgreSQL rounds a numeric input to the column's scale, half away from
\* zero: DECIMAL(15,2) for principal, DECIMAL(5,4) for interest_rate.
RoundNumeric(x, unit) ==
    IF x >= 0 THEN ((2 * x + unit) \div (2 * unit)) * unit
              ELSE -(((2 * (-x) + unit) \div (2 * unit)) * unit)

\* A TIMESTAMP column keeps microseconds: a Go time is rounded to them.
Timestamp(t) == ((2 * t + Microsecond) \div (2 * Microsecond)) * Microsecond

\* The clock is read by time.Now() and by CURRENT_TIMESTAMP only: time
\* passes between two readings, and a reading is any time from the last
\* one on.
Now == clock..MaxClock

\* CURRENT_TIMESTAMP, the default of created_at and updated_at, at time t.
CurrentTimestamp(t) == (t \div Microsecond) * Microsecond

(***************************************************************************)
(* Requests                                                                *)
(***************************************************************************)
\* A JSON body that does not decode into CreateAccountRequest.
MalformedBody == [ok |-> FALSE, user_id |-> 0, principal |-> 0, period |-> ""]

Body(userID, principal, period) ==
    [ok |-> TRUE, user_id |-> userID, principal |-> principal,
     period |-> period]

\* Bodies that pass validation: every period, two users, and principals of
\* 1.005 and 0.004 (DECIMAL(15,2) rounds them up and down).
ValidBodies ==
    {Body(1, 1005, "3m"), Body(1, 4, "6m"), Body(2, 1005, "1y"),
     Body(2, 4, "3y")}

\* Bodies that fail it, one per check, and one that does not decode.
InvalidBodies ==
    {MalformedBody, Body(0, 1005, "1y"), Body(1, 0, "1y"),
     Body(1, -1005, "3m"), Body(1, 1005, "10y")}

Bodies == ValidBodies \cup InvalidBodies

Digits == <<"0", "1", "2", "3", "4", "5", "6", "7", "8", "9">>

\* Path parameters: a one-digit id, or something that is no integer.
PathParams == {<<"x">>} \cup {<<Digits[n + 1]>> : n \in 1..MaxParam}

DigitValue(c) == CHOOSE n \in 0..9 : Digits[n + 1] = c

IsDigit(c) == \E n \in 0..9 : Digits[n + 1] = c

RECURSIVE ParseDigits(_)
ParseDigits(s) ==
    IF Len(s) = 0 THEN 0
    ELSE 10 * ParseDigits(SubSeq(s, 1, Len(s) - 1)) + DigitValue(s[Len(s)])

\* strconv.Atoi: an optional sign, then one or more decimal digits.
\* Variant: the conversion error is dropped.
AtoiIgnoresError(s) == [val |-> 0, err |-> "nil"]

Atoi(s) ==
    LET signed == Len(s) > 0 /\ s[1] \in {"+", "-"}
        body   == IF signed THEN Tail(s) ELSE s
    IN  IF Len(body) = 0 \/ \E k \in 1..Len(body) : ~IsDigit(body[k])
        THEN [val |-> 0, err |-> "invalid syntax"]
        ELSE [val |-> IF signed /\ s[1] = "-" THEN -ParseDigits(body)
                      ELSE ParseDigits(body),
              err |-> "nil"]

(***************************************************************************)
(* Validation and the rate table                                           *)
(***************************************************************************)
isValidPeriod(period) == period \in {"3m", "6m", "1y", "3y"}

\* validateCreateRequest with the principal check left out.
validateCreateRequestNoPrincipal(r) ==
    IF r.user_id <= 0 THEN "user_id must be positive"
    ELSE IF ~isValidPeriod(r.period) THEN "invalid period"
    ELSE "nil"

\* "nil", or the message of the first check that fails.
validateCreateRequest(r) ==
    IF r.user_id <= 0 THEN "user_id must be positive"
    ELSE IF r.principal <= 0 THEN "principal must be positive"
    ELSE IF ~isValidPeriod(r.period) THEN "invalid period"
    ELSE "nil"

\* The switch with 31-day months for "6m".
PeriodTermsLongMonths(period) ==
    CASE period = "3m" -> [err |-> "nil", duration |-> Hour * 24 * 30 * 3,
                           interestRate |-> 2000]
      [] period = "6m" -> [err |-> "nil", duration |-> Hour * 24 * 31 * 6,
                           interestRate |-> 3500]
      [] period = "1y" -> [err |-> "nil", duration |-> Hour * 24 * 365,
                           interestRate |-> 5000]
      [] period = "3y" -> [err |-> "nil", duration |-> Hour * 24 * 365 * 3,
                           interestRate |-> 10000]
      [] OTHER         -> [err |-> "invalid period", duration |-> 0,
                           interestRate |-> 0]

\* The switch of CreateBlockAccount: duration in ticks, rate in 1e-5.
PeriodTerms(period) ==
    CASE period = "3m" -> [err |-> "nil", duration |-> Hour * 24 * 30 * 3,
                           interestRate |-> 2000]
      [] period = "6m" -> [err |-> "nil", duration |-> Hour * 24 * 30 * 6,
                           interestRate |-> 3500]
      [] period = "1y" -> [err |-> "nil", duration |-> Hour * 24 * 365,
                           interestRate |-> 5000]
      [] period = "3y" -> [err |-> "nil", duration |-> Hour * 24 * 365 * 3,
                           interestRate |-> 10000]
      [] OTHER         -> [err |-> "invalid period", duration |-> 0,
                           interestRate |-> 0]

(***************************************************************************)
(* The store: one statement each                                           *)
(***************************************************************************)

\* An id computed as MAX(id) + 1 over the rows present.
NextValMaxPlusOne ==
    IF table = {} THEN 1
    ELSE (CHOOSE m \in {r.id : r \in table} :
            \A r \in table : r.id <= m) + 1

\* nextval of the SERIAL column's sequence.
NextVal == seq + 1

\* INSERT INTO block_accounts(...) VALUES ($1, $2, $3, $4, $5, 'active'):
\* the row as the column types keep it.
\* Variant: the row is written with another status.
InsertRowPending(id, userID, principal, startDate, endDate, interestRate, now) ==
    [id            |-> id,
     user_id       |-> userID,
     principal     |-> RoundNumeric(principal, Cent),
     start_date    |-> Timestamp(startDate),
     end_date      |-> Timestamp(endDate),
     interest_rate |-> RoundNumeric(interestRate, RateUnit),
     status        |-> "pending",
     created_at    |-> CurrentTimestamp(now),
     updated_at    |-> CurrentTimestamp(now)]

InsertRow(id, userID, principal, startDate, endDate, interestRate, now) ==
    [id            |-> id,
     user_id       |-> userID,
     principal     |-> RoundNumeric(principal, Cent),
     start_date    |-> Timestamp(startDate),
     end_date      |-> Timestamp(endDate),
     interest_rate |-> RoundNumeric(interestRate, RateUnit),
     status        |-> "active",
     created_at    |-> CurrentTimestamp(now),
     updated_at    |-> CurrentTimestamp(now)]

\* The lookup keyed on user_id instead of id.
SelectByIdWrongColumn(id) == {r \in table : r.user_id = id}

\* SELECT ... FROM block_accounts WHERE id=$1
SelectById(id) == {r \in table : r.id = id}

\* A DELETE that removes nothing.
DeleteByIdKeepsRow(id) == table

\* DELETE FROM block_accounts WHERE id=$1: the table that is left.
\* Variant: the statement is keyed on the owner.
DeleteByIdKeyedOnUser(id) == {r \in table : r.user_id # id}

DeleteById(id) == table \ SelectById(id)

\* Variant: the statement always reports a row.
RowsAffectedAlwaysOne(id) == 1

RowsAffected(id) == Cardinality(SelectById(id))

RECURSIVE Orderings(_)
Orderings(S) ==
    IF S = {} THEN {<<>>}
    ELSE UNION {{<<r>> \o t : t \in Orderings(S \ {r})} : r \in S}

\* ORDER BY created_at ASC.
OrderedByAscending(s) ==
    \A i, j \in 1..Len(s) : i < j => s[i].created_at <= s[j].created_at

OrderedBy(s) ==
    \A i, j \in 1..Len(s) : i < j => s[i].created_at >= s[j].created_at

\* The statement without its WHERE clause.
SelectByUserNoWhere(userID) == {s \in Orderings(table) : OrderedBy(s)}

\* SELECT ... WHERE user_id=$1 ORDER BY created_at DESC: every order of the
\* user's rows the statement may produce (rows with the same created_at come
\* in any order).
SelectByUser(userID) ==
    {s \in Orderings({r \in table : r.user_id = userID}) : OrderedBy(s)}

(***************************************************************************)
(* The service: what each method returns for what the store answered       *)
(***************************************************************************)
NoRows == <<>>

\* QueryRowContext(...).Scan: a store failure, sql.ErrNoRows, or the row.
ScanRow(ok, rows) ==
    IF ~ok THEN [val |-> NoRows, err |-> "StoreError"]
    ELSE IF rows = {} THEN [val |-> NoRows, err |-> "ErrNoRows"]
    ELSE [val |-> <<CHOOSE r \in rows : TRUE>>, err |-> "nil"]

\* CreateBlockAccount after its INSERT: the SELECT of the full row.
CreateBlockAccountSelect(scan) ==
    IF scan.err # "nil" THEN [val |-> NoRows, err |-> scan.err]
    ELSE [val |-> scan.val, err |-> "nil"]

\* GetBlockAccount without the sql.ErrNoRows case.
GetBlockAccountNoRowsIsError(scan) ==
    IF scan.err # "nil" THEN [val |-> NoRows, err |-> scan.err]
    ELSE [val |-> scan.val, err |-> "nil"]

GetBlockAccount(scan) ==
    IF scan.err # "nil"
    THEN IF scan.err = "ErrNoRows" THEN [val |-> NoRows, err |-> "nil"]
         ELSE [val |-> NoRows, err |-> scan.err]
    ELSE [val |-> scan.val, err |-> "nil"]

GetUserBlockAccounts(ok, accounts) ==
    IF ~ok THEN [val |-> NoRows, err |-> "StoreError"]
    ELSE [val |-> accounts, err |-> "nil"]

\* DeleteBlockAccount without the rowsAffected == 0 case.
DeleteBlockAccountIgnoresCount(ok, rowsAffected) ==
    IF ~ok THEN [val |-> NoRows, err |-> "StoreError"]
    ELSE [val |-> NoRows, err |-> "nil"]

DeleteBlockAccount(ok, rowsAffected) ==
    IF ~ok THEN [val |-> NoRows, err |-> "StoreError"]
    ELSE IF rowsAffected = 0 THEN [val |-> NoRows, err |-> "ErrNoRows"]
    ELSE [val |-> NoRows, err |-> "nil"]

(***************************************************************************)
(* The HTTP layer: the response for what the service returned              *)
(***************************************************************************)
writeError(statusCode) == [status |-> statusCode, data |-> NoRows]

\* writeSuccess never calls WriteHeader: the status is 200.
writeSuccess(data) == [status |-> 200, data |-> data]

createResponse(r) ==
    IF r.err # "nil" THEN writeError(500) ELSE writeSuccess(r.val)

getResponse(r) ==
    IF r.err # "nil" THEN writeError(500)
    ELSE IF r.val = NoRows THEN writeError(404)
    ELSE writeSuccess(r.val)

getUserResponse(r) ==
    IF r.err # "nil" THEN writeError(500) ELSE writeSuccess(r.val)

deleteResponse(r) ==
    IF r.err # "nil"
    THEN IF r.err = "ErrNoRows" THEN writeError(404) ELSE writeError(500)
    ELSE [status |-> 204, data |-> NoRows]

(***************************************************************************)
(* State                                                                   *)
(***************************************************************************)
\* overlap is history: a delete arrived while another delete of the same id
\* was in flight.
NoReq ==
    [op |-> "none", body |-> MalformedBody, param |-> <<>>, arg |-> 0,
     id |-> 0, startDate |-> 0, endDate |-> 0, interestRate |-> 0,
     overlap |-> FALSE]

NotCalled == [val |-> NoRows, err |-> "not called"]

NoResp == [status |-> 0, data |-> NoRows]

NoEffect == [ins |-> {}, del |-> {}]

Init ==
    /\ table = {}
    /\ seq = 0
    /\ clock = 0
    /\ pc = [w \in Workers |-> "idle"]
    /\ req = [w \in Workers |-> NoReq]
    /\ ret = [w \in Workers |-> NotCalled]
    /\ resp = [w \in Workers |-> NoResp]
    /\ started = 0
    /\ effect = [w \in Workers |-> NoEffect]
    /\ origin = <<>>
    /\ returned = <<>>
    /\ deleted = {}
    /\ assigned = <<>>

Idle(w) == pc[w] \in {"idle", "done"}

\* The server hands a new request to the first free slot.
Free(w) ==
    /\ Idle(w)
    /\ \A v \in Workers : v < w => ~Idle(v)
    /\ started < MaxRequests

\* The handler of slot w returns having written response r; the service
\* returned s (NotCalled when it was never called).
Finish(w, s, r) ==
    /\ pc' = [pc EXCEPT ![w] = "done"]
    /\ ret' = [ret EXCEPT ![w] = s]
    /\ resp' = [resp EXCEPT ![w] = r]

\* The handler of slot w goes on to its store call at position p.
Proceed(w, p) ==
    /\ pc' = [pc EXCEPT ![w] = p]
    /\ ret' = [ret EXCEPT ![w] = NotCalled]
    /\ resp' = [resp EXCEPT ![w] = NoResp]

History == <<origin, returned, deleted, assigned>>

\* The map f with key k set to v.
Put(f, k, v) == [i \in DOMAIN f \cup {k} |-> IF i = k THEN v ELSE f[i]]

(***************************************************************************)
(* POST /block-account                                                     *)
(***************************************************************************)
\* Decode, validate, then CreateBlockAccount up to its INSERT.
createBlockAccountHandler(w) ==
    /\ Free(w)
    /\ \E body \in Bodies :
         LET terms == PeriodTerms(body.period)
             r == [NoReq EXCEPT !.op = "create", !.body = body]
         IN  IF ~body.ok \/ validateCreateRequest(body) # "nil"
             THEN /\ req' = [req EXCEPT ![w] = r]
                  /\ Finish(w, NotCalled, writeError(400))
                  /\ UNCHANGED clock
             ELSE IF terms.err # "nil"
             THEN /\ req' = [req EXCEPT ![w] = r]
                  /\ Finish(w, [val |-> NoRows, err |-> terms.err],
                            writeError(500))
                  /\ UNCHANGED clock
             ELSE \E now \in Now :
                    /\ clock' = now
                    /\ req' = [req EXCEPT ![w] =
                                 [r EXCEPT !.startDate = now,
                                           !.endDate = now + terms.duration,
                                           !.interestRate = terms.interestRate]]
                    /\ Proceed(w, "insert")
    /\ started' = started + 1
    /\ effect' = [effect EXCEPT ![w] = NoEffect]
    /\ UNCHANGED <<table, seq, History>>

\* INSERT ... RETURNING id
CreateInsert(w) ==
    /\ pc[w] = "insert"
    /\ \E ok \in BOOLEAN :
         IF ~ok
         THEN /\ Finish(w, [val |-> NoRows, err |-> "StoreError"],
                        createResponse([val |-> NoRows, err |-> "StoreError"]))
              /\ UNCHANGED <<table, seq, clock, req, effect, origin,
                             assigned>>
         ELSE \E now \in Now :
              LET id == NextVal
                  row == InsertRow(id, req[w].body.user_id,
                                   req[w].body.principal, req[w].startDate,
                                   req[w].endDate, req[w].interestRate, now)
              IN  /\ clock' = now
                  /\ seq' = id
                  /\ table' = table \cup {row}
                  /\ req' = [req EXCEPT ![w].id = id]
                  /\ effect' = [effect EXCEPT ![w].ins = @ \cup {row}]
                  /\ origin' = Put(origin, id, req[w])
                  /\ assigned' = Append(assigned, id)
                  /\ Proceed(w, "select")
    /\ UNCHANGED <<started, returned, deleted>>

\* SELECT ... WHERE id=$1 of the row just inserted, and the response.
CreateSelect(w) ==
    /\ pc[w] = "select"
    /\ \E ok \in BOOLEAN :
         LET s == CreateBlockAccountSelect(ScanRow(ok, SelectById(req[w].id)))
         IN  /\ Finish(w, s, createResponse(s))
             /\ returned' = IF s.err = "nil"
                            THEN Put(returned, req[w].id, s.val[1])
                            ELSE returned
    /\ UNCHANGED <<table, seq, clock, req, started, effect, origin, deleted,
                   assigned>>

(***************************************************************************)
(* GET /block-account/{id}                                                 *)
(***************************************************************************)
getBlockAccountHandler(w) ==
    /\ Free(w)
    /\ \E idStr \in PathParams :
         LET id == Atoi(idStr)
             r == [NoReq EXCEPT !.op = "get", !.param = idStr, !.arg = id.val]
         IN  /\ req' = [req EXCEPT ![w] = r]
             /\ IF id.err # "nil"
                THEN Finish(w, NotCalled, writeError(400))
                ELSE Proceed(w, "get")
    /\ started' = started + 1
    /\ effect' = [effect EXCEPT ![w] = NoEffect]
    /\ UNCHANGED <<table, seq, clock, History>>

\* SELECT ... WHERE id=$1, and the response.
GetQuery(w) ==
    /\ pc[w] = "get"
    /\ \E ok \in BOOLEAN :
         LET s == GetBlockAccount(ScanRow(ok, SelectById(req[w].arg)))
         IN  Finish(w, s, getResponse(s))
    /\ UNCHANGED <<table, seq, clock, req, started, effect, History>>

(***************************************************************************)
(* GET /user/{userID}/block-accounts                                       *)
(***************************************************************************)
getUserBlockAccountsHandler(w) ==
    /\ Free(w)
    /\ \E userIDStr \in PathParams :
         LET userID == Atoi(userIDStr)
             r == [NoReq EXCEPT !.op = "list", !.param = userIDStr,
                                !.arg = userID.val]
         IN  /\ req' = [req EXCEPT ![w] = r]
             /\ IF userID.err # "nil"
                THEN Finish(w, NotCalled, writeError(400))
                ELSE Proceed(w, "list")
    /\ started' = started + 1
    /\ effect' = [effect EXCEPT ![w] = NoEffect]
    /\ UNCHANGED <<table, seq, clock, History>>

\* SELECT ... WHERE user_id=$1 ORDER BY created_at DESC, and the response.
ListQuery(w) ==
    /\ pc[w] = "list"
    /\ \E ok \in BOOLEAN :
         \E accounts \in SelectByUser(req[w].arg) :
           LET s == GetUserBlockAccounts(ok, accounts)
           IN  Finish(w, s, getUserResponse(s))
    /\ UNCHANGED <<table, seq, clock, req, started, effect, History>>

(***************************************************************************)
(* DELETE /block-account/{id}                                              *)
(***************************************************************************)
deleteBlockAccountHandler(w) ==
    /\ Free(w)
    /\ \E idStr \in PathParams :
         LET id == Atoi(idStr)
             r == [NoReq EXCEPT !.op = "delete", !.param = idStr,
                                !.arg = id.val,
                                !.overlap =
                                  /\ id.err = "nil"
                                  /\ \E v \in Workers \ {w} :
                                        /\ pc[v] = "delete"
                                        /\ req[v].arg = id.val]
         IN  /\ req' = [req EXCEPT ![w] = r]
             /\ IF id.err # "nil"
                THEN Finish(w, NotCalled, writeError(400))
                ELSE Proceed(w, "delete")
    /\ started' = started + 1
    /\ effect' = [effect EXCEPT ![w] = NoEffect]
    /\ UNCHANGED <<table, seq, clock, History>>

\* DELETE FROM block_accounts WHERE id=$1, and the response.
DeleteExec(w) ==
    /\ pc[w] = "delete"
    /\ \E ok \in BOOLEAN :
         LET id == req[w].arg
             s == DeleteBlockAccount(ok, RowsAffected(id))
         IN  /\ Finish(w, s, deleteResponse(s))
             /\ table' = IF ok THEN DeleteById(id) ELSE table
             /\ effect' = IF ok
                          THEN [effect EXCEPT ![w].del =
                                  @ \cup (table \ DeleteById(id))]
                          ELSE effect
             /\ deleted' = IF s.err = "nil"
                           THEN deleted \cup {id} ELSE deleted
    /\ UNCHANGED <<seq, clock, req, started, origin, returned, assigned>>

(***************************************************************************)
(* GET /health                                                             *)
(***************************************************************************)
\* time.Now().Format(time.RFC3339): whole seconds.
RFC3339(t) == t \div (1000000 * Microsecond)

\* PingContext: nil, or the store's error.
PingContext(ok) ==
    IF ok THEN [val |-> NoRows, err |-> "nil"]
    ELSE [val |-> NoRows, err |-> "StoreError"]

\* Variant: the ping's error is not looked at.
healthResponseAlwaysOk(r, now) ==
    [status |-> 200,
     data |-> <<[status |-> "ok", timestamp |-> RFC3339(now)]>>]

healthResponse(r, now) ==
    IF r.err # "nil" THEN writeError(503)
    ELSE [status |-> 200,
          data |-> <<[status |-> "ok", timestamp |-> RFC3339(now)]>>]

healthHandler(w) ==
    /\ Free(w)
    /\ req' = [req EXCEPT ![w] = [NoReq EXCEPT !.op = "health"]]
    /\ Proceed(w, "ping")
    /\ started' = started + 1
    /\ effect' = [effect EXCEPT ![w] = NoEffect]
    /\ UNCHANGED <<table, seq, clock, History>>

\* PingContext on the request's own context (no timeout), and the response.
Ping(w) ==
    /\ pc[w] = "ping"
    /\ \E ok \in BOOLEAN :
         LET s == PingContext(ok)
         IN  IF ok
             THEN \E now \in Now :
                    /\ clock' = now
                    /\ Finish(w, s, healthResponse(s, now))
             ELSE /\ Finish(w, s, healthResponse(s, clock))
                  /\ UNCHANGED clock
    /\ UNCHANGED <<table, seq, req, started, effect, History>>

Next ==
    \/ \E w \in Workers : createBlockAccountHandler(w)
    \/ \E w \in Workers : CreateInsert(w)
    \/ \E w \in Workers : CreateSelect(w)
    \/ \E w \in Workers : getBlockAccountHandler(w)
    \/ \E w \in Workers : GetQuery(w)
    \/ \E w \in Workers : getUserBlockAccountsHandler(w)
    \/ \E w \in Workers : ListQuery(w)
    \/ \E w \in Workers : deleteBlockAccountHandler(w)
    \/ \E w \in Workers : DeleteExec(w)
    \/ \E w \in Workers : healthHandler(w)
    \/ \E w \in Workers : Ping(w)

Spec == Init /\ [][Next]_vars

\* The four handlers that call the service do so under
\* context.WithTimeout(r.Context(), 5*time.Second): each of their store calls
\* returns, with the store's answer or with the deadline's error.  The ping
\* of healthHandler runs on r.Context(), which carries no deadline.
SpecTimeouts ==
    /\ Spec
    /\ \A w \in Workers :
         /\ WF_vars(CreateInsert(w))
         /\ WF_vars(CreateSelect(w))
         /\ WF_vars(GetQuery(w))
         /\ WF_vars(ListQuery(w))
         /\ WF_vars(DeleteExec(w))

(***************************************************************************)
(* The earlier program kept in the same file (src/main.go, lines 572-847): *)
(* create, get and delete only.  Its get and delete are the ones above;    *)
(* its create handler does not validate, calls the service on the          *)
(* request's own context, and answers 400 to every service error; its      *)
(* service inserts and returns the account it built, without reading the   *)
(* row back.                                                               *)
(***************************************************************************)
\* The BlockAccount the earlier CreateBlockAccount builds from its own
\* arguments.
BuiltAccount(id, userID, principal, startDate, endDate, interestRate) ==
    [id            |-> id,
     user_id       |-> userID,
     principal     |-> principal,
     start_date    |-> startDate,
     end_date      |-> endDate,
     interest_rate |-> interestRate,
     status        |-> "active"]

\* http.Error(w, err.Error(), http.StatusBadRequest) for every service error.
createResponseV1(r) ==
    IF r.err # "nil" THEN writeError(400) ELSE writeSuccess(r.val)

\* Decode, then CreateBlockAccount up to its INSERT.
createBlockAccountHandlerV1(w) ==
    /\ Free(w)
    /\ \E body \in Bodies :
         LET terms == PeriodTerms(body.period)
             r == [NoReq EXCEPT !.op = "create", !.body = body]
         IN  IF ~body.ok
             THEN /\ req' = [req EXCEPT ![w] = r]
                  /\ Finish(w, NotCalled, writeError(400))
                  /\ UNCHANGED clock
             ELSE IF terms.err # "nil"
             THEN /\ req' = [req EXCEPT ![w] = r]
                  /\ Finish(w, [val |-> NoRows, err |-> terms.err],
                            createResponseV1([val |-> NoRows,
                                              err |-> terms.err]))
                  /\ UNCHANGED clock
             ELSE \E now \in Now :
                    /\ clock' = now
                    /\ req' = [req EXCEPT ![w] =
                                 [r EXCEPT !.startDate = now,
                                           !.endDate = now + terms.duration,
                                           !.interestRate = terms.interestRate]]
                    /\ Proceed(w, "insert")
    /\ started' = started + 1
    /\ effect' = [effect EXCEPT ![w] = NoEffect]
    /\ UNCHANGED <<table, seq, History>>

\* INSERT ... RETURNING id, and the response.
CreateInsertV1(w) ==
    /\ pc[w] = "insert"
    /\ \E ok \in BOOLEAN :
         IF ~ok
         THEN /\ Finish(w, [val |-> NoRows, err |-> "StoreError"],
                        createResponseV1([val |-> NoRows,
                                          err |-> "StoreError"]))
              /\ UNCHANGED <<table, seq, clock, req, effect, origin,
                             returned, assigned>>
         ELSE \E now \in Now :
              LET id == NextVal
                  row == InsertRow(id, req[w].body.user_id,
                                   req[w].body.principal, req[w].startDate,
                                   req[w].endDate, req[w].interestRate, now)
                  account == BuiltAccount(id, req[w].body.user_id,
                                          req[w].body.principal,
                                          req[w].startDate, req[w].endDate,
                                          req[w].interestRate)
                  s == [val |-> <<account>>, err |-> "nil"]
              IN  /\ clock' = now
                  /\ seq' = id
                  /\ table' = table \cup {row}
                  /\ req' = [req EXCEPT ![w].id = id]
                  /\ effect' = [effect EXCEPT ![w].ins = @ \cup {row}]
                  /\ origin' = Put(origin, id, req[w])
                  /\ returned' = Put(returned, id, account)
                  /\ assigned' = Append(assigned, id)
                  /\ Finish(w, s, createResponseV1(s))
    /\ UNCHANGED <<started, deleted>>

NextV1 ==
    \/ \E w \in Workers : createBlockAccountHandlerV1(w)
    \/ \E w \in Workers : CreateInsertV1(w)
    \/ \E w \in Workers : getBlockAccountHandler(w)
    \/ \E w \in Workers : GetQuery(w)
    \/ \E w \in Workers : deleteBlockAccountHandler(w)
    \/ \E w \in Workers : DeleteExec(w)

SpecV1 == Init /\ [][NextV1]_vars

(***************************************************************************)
(* Properties                                                              *)
(***************************************************************************)
Day == Hour * 24

\* The rate table as the documentation states it: days, and rate in 1e-5.
FixedDays(p) ==
    CASE p = "3m" -> 90 [] p = "6m" -> 180 [] p = "1y" -> 365
      [] p = "3y" -> 1095

FixedRate(p) ==
    CASE p = "3m" -> 2000 [] p = "6m" -> 3500 [] p = "1y" -> 5000
      [] p = "3y" -> 10000

ValidPeriods == {"3m", "6m", "1y", "3y"}

\* An account carries the fixed duration and rate of period p.
HasTerms(a, p) ==
    /\ p \in ValidPeriods
    /\ a.end_date - a.start_date = FixedDays(p) * Day
    /\ a.interest_rate = FixedRate(p)

\* Slot w has answered a request of kind op.
Answered(w, op) == pc[w] = "done" /\ req[w].op = op

\* Slot w takes the store step at position p and answers.
Answers(w, p) == pc[w] = p /\ pc'[w] = "done"

InvalidInput(b) ==
    b.user_id <= 0 \/ b.principal <= 0 \/ b.period \notin ValidPeriods

ReadsLive(w, i) ==
    /\ Answers(w, "get")
    /\ i = req[w].arg
    /\ i \in DOMAIN returned
    /\ i \notin deleted
    /\ ret'[w].err = "nil"

Nearest(x, y, unit) ==
    /\ x % unit = 0
    /\ 2 * x - unit <= 2 * y
    /\ 2 * y < 2 * x + unit

C5_DeleteAbsent ==
    [][\A w \in Workers :
         (Answers(w, "delete") /\ \A r \in table : r.id # req[w].arg) =>
           /\ table' = table
           /\ resp'[w].status # 204
           /\ ret'[w].err # "StoreError" =>
                (ret'[w].err = "ErrNoRows" /\ resp'[w].status = 404)]_vars

\* A delete of an absent id was answered 404 while the table holds rows.
C5_Witness ==
    \E w \in Workers :
      /\ Answered(w, "delete")
      /\ ret[w].err = "ErrNoRows"
      /\ resp[w].status = 404
      /\ table # {}
      /\ effect[w] = NoEffect

\* C6: a get of an id no stored record has is never answered 200; when the
\* store answers, the service returns a nil record and a nil error, and the
\* response is 404.
C6_GetAbsent ==
    [][\A w \in Workers :
         (Answers(w, "get") /\ \A r \in table : r.id # req[w].arg) =>
           /\ resp'[w].status # 200
           /\ ret'[w].err # "StoreError" =>
                /\ ret'[w] = [val |-> NoRows, err |-> "nil"]
                /\ resp'[w].status = 404]_vars

\* A get of an id that was never assigned was answered 404.
C6_Witness ==
    \E w \in Workers :
      /\ Answered(w, "get")
      /\ req[w].arg > seq
      /\ ret[w] = [val |-> NoRows, err |-> "nil"]
      /\ resp[w].status = 404
      /\ table # {}

C8_LaterCreatedFirst ==
    \A w \in Workers :
      (Answered(w, "list") /\ resp[w].status = 200) =>
        \A i, j \in 1..Len(resp[w].data) :
          i < j => resp[w].data[i].id > resp[w].data[j].id

\* C8, amended: a listing is ordered by created_at, descending: a record
\* with a later created_at comes before one with an earlier created_at
\* (records with the same created_at come in either order).
C8_OrderedByCreatedAt ==
    \A w \in Workers :
      (Answered(w, "list") /\ resp[w].status = 200) =>
        \A i, j \in 1..Len(resp[w].data) :
          resp[w].data[i].created_at > resp[w].data[j].created_at => i < j

\* A listing holds two records with different created_at.
C8_Witness ==
    \E w \in Workers :
      /\ Answered(w, "list")
      /\ Len(resp[w].data) = 2
      /\ resp[w].data[1].created_at > resp[w].data[2].created_at

\* C9: no two stored records share an id, and every id the sequence hands
\* out is greater than all it handed out before, deleted ones included.
C9_IdsUniqueMonotonic ==
    /\ \A r1, r2 \in table : r1.id = r2.id => r1 = r2
    /\ \A i, j \in 1..Len(assigned) : i < j => assigned[i] < assigned[j]
    /\ \A r \in table : \E k \in 1..Len(assigned) : assigned[k] = r.id

\* An id was assigned after an earlier id had been deleted.
C9_Witness ==
    /\ Len(assigned) >= 2
    /\ assigned[1] \in deleted
    /\ \E r \in table : r.id = assigned[2]

\* C10: a request answered with a failure has changed nothing in the store.
C10_FailureLeavesStore ==
    \A w \in Workers :
      (pc[w] = "done" /\ req[w].op \in {"create", "get", "list", "delete"}
         /\ resp[w].status >= 400)
        => effect[w] = NoEffect

\* C11: a store error during create, get, get_by_user or delete is
\* answered 500.
C11_StoreErrorIs500 ==
    \A w \in Workers :
      (pc[w] = "done" /\ req[w].op \in {"create", "get", "list", "delete"}
         /\ ret[w].err = "StoreError")
        => resp[w].status = 500

\* C15: a create that reaches the service with user_id <= 0, principal <= 0
\* or an unknown period fails there: the service returns an error and the
\* request inserts nothing.
C15_ServiceValidates ==
    \A w \in Workers :
      (req[w].op = "create" /\ req[w].body.ok /\ InvalidInput(req[w].body))
        => /\ pc[w] = "done"
           /\ ret[w].err # "nil"
           /\ effect[w] = NoEffect

\* C12: every stored record, and every record a create returned, has status
\* "active".
C12_StatusActive ==
    /\ \A r \in table : r.status = "active"
    /\ \A i \in DOMAIN returned : returned[i].status = "active"

\* A record is stored after a create was answered and another was deleted.
C12_Witness ==
    /\ \E w \in Workers : Answered(w, "create") /\ resp[w].status = 200
    /\ deleted # {}
    /\ table # {}

\* C13: a stored record leaves the table only by a successful delete of its
\* id and never changes while stored; a new row comes only from a create's
\* INSERT and has a fresh id; get, get_by_user and health leave the table
\* as it was; a successful delete of id i removes the record with id i and
\* no other.
C13_Frame ==
    [][/\ \A r \in table :
            \/ r \in table'
            \/ \E w \in Workers :
                  /\ Answers(w, "delete")
                  /\ req[w].arg = r.id
                  /\ resp'[w].status = 204
       /\ \A r \in table' \ table :
            /\ \E w \in Workers : pc[w] = "insert" /\ pc'[w] # "insert"
            /\ \A q \in table : q.id # r.id
       /\ \A w \in Workers :
            (pc[w] \in {"get", "list", "ping"} /\ pc'[w] # pc[w])
              => (table' = table /\ seq' = seq)
       /\ \A w \in Workers :
            (Answers(w, "delete") /\ resp'[w].status = 204)
              => /\ table' = {r \in table : r.id # req[w].arg}
                 /\ table' # table]_vars

\* A delete was answered 204 and a record with another id is still stored.
C13_Witness ==
    \E w \in Workers :
      /\ Answered(w, "delete")
      /\ resp[w].status = 204
      /\ req[w].arg \in deleted
      /\ \E r \in table : r.id # req[w].arg

\* C14: every stored record has principal > 0 and user_id > 0.
C14_PositiveStored ==
    \A r \in table : r.principal > 0 /\ r.user_id > 0

\* A path parameter that is not a decimal integer.
NotAnInteger(s) ==
    LET body == IF Len(s) > 0 /\ s[1] \in {"+", "-"} THEN Tail(s) ELSE s
    IN  Len(body) = 0 \/ \E k \in 1..Len(body) : (\A n \in DOMAIN Digits : Digits[n] # body[k])

\* C16: a get, delete or get_by_user whose path parameter is not an integer
\* is answered 400 at once, without a call to the service and without a
\* change to the store.
C16_MalformedIdRejected ==
    \A w \in Workers :
      (req[w].op \in {"get", "delete", "list"}
         /\ NotAnInteger(req[w].param))
        => /\ pc[w] = "done"
           /\ resp[w].status = 400
           /\ ret[w] = NotCalled
           /\ effect[w] = NoEffect

\* A delete with a malformed id was answered 400 while records are stored.
C16_Witness ==
    \E w \in Workers :
      /\ Answered(w, "delete")
      /\ req[w].param = <<"x">>
      /\ resp[w].status = 400
      /\ table # {}

\* C17: every request that has started is eventually answered.
C17_EveryRequestAnswered ==
    \A w \in Workers : (pc[w] \notin {"idle", "done"}) ~> (pc[w] = "done")

\* C18: a health check is answered 200, with a status and a timestamp, when
\* the ping succeeds and 503 when the ping fails, never 200 on a failed ping;
\* neither of its steps changes the store.
C18_Health ==
    [][\A w \in Workers :
         /\ (pc[w] # "ping" /\ pc'[w] = "ping")
              => (table' = table /\ seq' = seq)
         /\ Answers(w, "ping") =>
              /\ table' = table /\ seq' = seq
              /\ effect'[w] = NoEffect
              /\ ret'[w].err = "nil" =>
                   /\ resp'[w].status = 200
                   /\ Len(resp'[w].data) = 1
                   /\ resp'[w].data[1].status = "ok"
                   /\ resp'[w].data[1].timestamp \in RFC3339(clock)..RFC3339(MaxClock)
              /\ ret'[w].err # "nil" =>
                   /\ resp'[w].status = 503
                   /\ resp'[w].data = NoRows]_vars

\* One health check was answered 200 and another 503, with records stored.
C18_Witness ==
    \E v, w \in Workers :
      /\ Answered(v, "health") /\ resp[v].status = 200
      /\ Answered(w, "health") /\ resp[w].status = 503
      /\ ret[w].err = "StoreError"
      /\ table # {}

\* C19: a delete the store answers succeeds with 204 exactly when a record
\* with its id is stored at its DELETE and is answered 404 otherwise; no id
\* is reported deleted twice; after a successful delete no record has the id.
C19_OneDeleteWins ==
    [][\A w \in Workers :
         (Answers(w, "delete") /\ ret'[w].err # "StoreError") =>
           /\ resp'[w].status \in {204, 404}
           /\ resp'[w].status = 204 <=> \E r \in table : r.id = req[w].arg
           /\ resp'[w].status = 204 =>
                /\ req[w].arg \notin deleted
                /\ \A v \in Workers \ {w} :
                     ~(Answered(v, "delete") /\ req[v].arg = req[w].arg
                         /\ resp[v].status = 204)
           /\ \A r \in table' : r.id # req[w].arg]_vars

\* Two deletes of the same stored id were in flight together: one was
\* answered 204, the other 404, and no record has the id.
C19_Witness ==
    \E v, w \in Workers :
      /\ v # w
      /\ Answered(v, "delete") /\ Answered(w, "delete")
      /\ req[v].arg = req[w].arg
      /\ req[v].overlap \/ req[w].overlap
      /\ resp[v].status = 204
      /\ resp[w].status = 404
      /\ \A r \in table : r.id # req[v].arg

====
